---- MODULE Spec2Model ----
(***************************************************************************)
(* Ticker scheduling and polling engine of the handball.net WhatsApp       *)
(* live-ticker bot (polling.js, app.js, utils.js).                         *)
(*                                                                         *)
(* The program runs on one JavaScript event loop: every action below is    *)
(* one run-to-completion slice of a handler, from its start or from the    *)
(* resumption of an `await` up to the next real `await` (a network fetch,  *)
(* a Messenger send, the Summary Generator) or to its return.  An `await`  *)
(* of a call that returned without suspending is not a scheduling point.   *)
(*                                                                         *)
(* TickerState objects live in `heap` and are referred to by index, since  *)
(* Workers, timers and continuations keep references (or chat ids) that    *)
(* survive a delete / re-create of the registry entry.                     *)
(***************************************************************************)
EXTENDS Integers, Sequences, FiniteSets, Bags, TLC

\* ---------------------------------------------------------------- bounds
\* accepted !start1 commands in one behaviour
MaxCreates == 2
\* accepted !start1 commands in a behaviour whose tickers run in recap mode
MaxRecapCreates == 1
\* events the feed publishes in one behaviour
MaxFeed == 4

\* ------------------------------------------------------ program constants
MAX_WORKERS == 2
\* clock minute above which a StopPeriod event is the end of the game
REGULATION_MINUTE == 30
\* value of lastUpdatedAt before any fetch (undefined in the source)
NoVersion == 0

AllChats == {"c1", "c2", "c3"}
Modes == {"live", "recap"}

\* ------------------------------------------------------------------ feed
\* The feed is an append-only log of events 1, 2, ...; an event's id is also
\* its timestamp rank.  Event 1 is a goal, 2 the half-time whistle
\* (StopPeriod 30:00), 3 the final whistle (StopPeriod 60:00), later events
\* are goals reported late.
EventType(id) == IF id \in {2, 3} THEN "StopPeriod" ELSE "Goal"

EventMinute(id) == CASE id = 1 -> 12
                     [] id = 2 -> 30
                     [] id = 3 -> 60
                     [] OTHER -> 60

\* ev.time of the event, "mm:ss"
EventTime(id) == <<EventMinute(id), 0>>

\* gameData.events as the API sends it: newest first
FeedEvents(k) == [j \in 1..k |-> k + 1 - j]

\* summary.updatedAt of the feed when it holds k events
FeedVersion(k) == k + 1

Reverse(s) == [j \in 1..Len(s) |-> s[Len(s) + 1 - j]]

\* the events processed in the order the feed sends them
ChronologicalEvents_AsFetched(k) == FeedEvents(k)

\* const events = gameData.events.slice().reverse()
ChronologicalEvents(k) == Reverse(FeedEvents(k))

Range(s) == {s[j] : j \in 1..Len(s)}

\* ------------------------------------------------------------- variables
VARIABLES
    chats,            \* chat ids that issue commands in this behaviour
    modes,            \* ticker modes the commands of this behaviour ask for
    activeTickers,    \* Map chatId -> TickerState, in insertion order
    heap,             \* the TickerState objects ever created
    jobQueue,         \* pending Jobs, head first
    activeWorkers,    \* concurrency counter of the Dispatcher
    lastPolledIndex,  \* round-robin cursor of the Master Scheduler
    workers,          \* bag of Workers suspended in an await
    conts,            \* bag of other suspended continuations
    orphanTimers,     \* armed schedule timers no TickerState field refers to
    cleanupTimers,    \* pending deferred-cleanup timers per chat
    scheduleFile,     \* persisted schedule map (its chat ids)
    seenFile,         \* persisted SeenSnapshot: chatId -> set of ids
    feedLen,          \* number of events the feed holds now
    creates,          \* accepted !start1 commands so far
    hist              \* per TickerState: what it handed to the Messenger

vars == <<chats, modes, activeTickers, heap, jobQueue, activeWorkers, lastPolledIndex,
          workers, conts, orphanTimers, cleanupTimers, scheduleFile, seenFile,
          feedLen, creates, hist>>

\* The mutable program state as one record, so that a handler's calls
\* compose as functions from state to state.
Cur == [activeTickers |-> activeTickers, heap |-> heap, jobQueue |-> jobQueue,
        activeWorkers |-> activeWorkers, lastPolledIndex |-> lastPolledIndex,
        workers |-> workers, conts |-> conts, orphanTimers |-> orphanTimers,
        cleanupTimers |-> cleanupTimers, scheduleFile |-> scheduleFile,
        seenFile |-> seenFile, hist |-> hist, feedLen |-> feedLen,
        tag |-> "none", skipped |-> {}, delivered |-> {}, stats |-> 0,
        summaries |-> 0]

\* Besides the program state the record carries outputs of the slice that
\* are not kept in the state: what happened in it (tag), the events it
\* skipped as already seen, the events whose live message the Messenger
\* accepted in it, and the stats and summary messages it scheduled.
Commit(S) ==
    /\ activeTickers' = S.activeTickers
    /\ heap' = S.heap
    /\ jobQueue' = S.jobQueue
    /\ activeWorkers' = S.activeWorkers
    /\ lastPolledIndex' = S.lastPolledIndex
    /\ workers' = S.workers
    /\ conts' = S.conts
    /\ orphanTimers' = S.orphanTimers
    /\ cleanupTimers' = S.cleanupTimers
    /\ scheduleFile' = S.scheduleFile
    /\ seenFile' = S.seenFile
    /\ hist' = S.hist
    /\ feedLen' = S.feedLen
    /\ UNCHANGED <<chats, modes>>

\* --------------------------------------------------------- registry (Map)
Has(S, c) == \E j \in 1..Len(S.activeTickers) : S.activeTickers[j].chatId = c

\* activeTickers.get(chatId): the object's heap index, 0 for undefined
Get(S, c) ==
    IF Has(S, c)
    THEN (CHOOSE e \in Range(S.activeTickers) : e.chatId = c).ts
    ELSE 0

\* activeTickers.delete(chatId)
MapDelete(S, c) ==
    [S EXCEPT !.activeTickers = SelectSeq(@, LAMBDA e : e.chatId # c)]

\* a fresh `{ seen: new Set() }`; absent fields read as falsy
NewTicker(c) ==
    [chatId |-> c, isPolling |-> FALSE, isScheduling |-> FALSE,
     isScheduled |-> FALSE, mode |-> "live", seen |-> {},
     lastUpdatedAt |-> NoVersion, recapEvents |-> <<>>,
     recapIntervalId |-> "none", scheduleTimeout |-> "none"]

\* history of a TickerState: the events whose live message it handed to the
\* Messenger, the recap messages it handed over (each the set of its
\* events), and its terminal wind-downs
NewHist == [handed |-> <<>>, recaps |-> <<>>, windDowns |-> 0]

\* phase of a TickerState as the flags encode it
Phase(t) ==
    IF t.isPolling THEN "Polling"
    ELSE IF t.isScheduled THEN "Scheduled"
    ELSE IF t.isScheduling THEN "Scheduling"
    ELSE "Terminated"

PhaseOf(S, c) == IF Has(S, c) THEN Phase(S.heap[Get(S, c)]) ELSE "Absent"

\* ------------------------------------------------------------- job queue
HasJob(q, c, type) == \E j \in 1..Len(q) : q[j].chatId = c /\ q[j].type = type

HasAnyJob(q, c) == \E j \in 1..Len(q) : q[j].chatId = c

\* const index = jobQueue.findIndex(job => job.chatId === chatId);
\* if (index > -1) jobQueue.splice(index, 1);
RemoveFirstJob(q, c) ==
    IF HasAnyJob(q, c)
    THEN LET k == CHOOSE j \in 1..Len(q) :
                    /\ q[j].chatId = c
                    /\ \A m \in 1..(j - 1) : q[m].chatId # c
         IN  SubSeq(q, 1, k - 1) \o SubSeq(q, k + 1, Len(q))
    ELSE q

\* ------------------------------------------------------------ persistence
\* saveSeenTickers(activeTickers, seenFilePath)
saveSeenTickers(S) ==
    [S EXCEPT !.seenFile =
        [c \in {e.chatId : e \in Range(S.activeTickers)} |->
            S.heap[Get(S, c)].seen]]

\* delete currentSchedule[chatId]; saveScheduledTickers(...)
RemoveSchedule(S, c) == [S EXCEPT !.scheduleFile = @ \ {c}]

\* clearTimeout / clearInterval on a handle field: an armed timer dies,
\* the field keeps its (now stale) handle
Cleared(h) == IF h = "armed" THEN "dead" ELSE h

\* ------------------------------------------------------------- Messenger
\* client.sendMessage(chatId, msg) for a live event: the message is handed
\* to the Messenger at the call
HandEvent(S, ts, id) == [S EXCEPT !.hist[ts].handed = Append(@, id)]

\* outcomes of a Messenger send: it returns or throws a SendError
SendOutcomes == {"ok", "error"}

Suspend(S, k) == [S EXCEPT !.conts = @ (+) SetToBag({k})]

\* ------------------------------------------------- queueTickerScheduling
PollJob(c) == [type |-> "poll", chatId |-> c]

ScheduleJob(c) == [type |-> "schedule", chatId |-> c]

\* queueTickerScheduling that always starts from a fresh `seen` set
queueTickerScheduling_FreshSeen(S, c, mode) ==
    LET old == Get(S, c)
        ts  == IF old # 0 THEN old ELSE Len(S.heap) + 1
        S1  == IF old # 0 THEN S
               ELSE [S EXCEPT !.heap = Append(@, NewTicker(c)),
                              !.hist = Append(@, NewHist),
                              !.activeTickers =
                                  Append(@, [chatId |-> c, ts |-> ts])]
    IN  [S1 EXCEPT !.heap[ts].isPolling = FALSE,
                   !.heap[ts].isScheduling = TRUE,
                   !.heap[ts].mode = mode,
                   !.heap[ts].seen = {},
                   !.heap[ts].recapEvents = <<>>,
                   !.jobQueue = Append(@, ScheduleJob(c))]

\* the state part of queueTickerScheduling, for a valid URL
queueTickerScheduling(S, c, mode) ==
    LET old == Get(S, c)
        ts  == IF old # 0 THEN old ELSE Len(S.heap) + 1
        S1  == IF old # 0 THEN S
               ELSE [S EXCEPT !.heap = Append(@, NewTicker(c)),
                              !.hist = Append(@, NewHist),
                              !.activeTickers =
                                  Append(@, [chatId |-> c, ts |-> ts])]
    IN  [S1 EXCEPT !.heap[ts].isPolling = FALSE,
                   !.heap[ts].isScheduling = TRUE,
                   !.heap[ts].mode = mode,
                   !.heap[ts].recapEvents = <<>>,
                   !.jobQueue = Append(@, ScheduleJob(c))]

\* ----------------------------------------------------- beginActualPolling
\* if (!jobQueue.some(poll job of chatId)) jobQueue.unshift({type:'poll'})
EnqueueFirstPoll(S, c) ==
    IF ~HasJob(S.jobQueue, c, "poll")
    THEN [S EXCEPT !.jobQueue = <<PollJob(c)>> \o @]
    ELSE S

\* beginActualPolling without its `if (tickerState.isPolling) return`
beginActualPolling_NoGuard(S, c) ==
    LET ts == Get(S, c)
    IN  IF ts = 0 THEN RemoveSchedule(S, c)
        ELSE LET S1 == RemoveSchedule(
                         [S EXCEPT !.heap[ts].isPolling = TRUE,
                                   !.heap[ts].isScheduled = FALSE], c)
             IN  IF S1.heap[ts].mode = "recap"
                 THEN Suspend(S1, [kind |-> "legend", chatId |-> c, ts |-> ts])
                 ELSE EnqueueFirstPoll(S1, c)

\* beginActualPolling(chatId) up to its return (live mode) or up to the
\* await of the legend message (recap mode)
beginActualPolling(S, c) ==
    LET ts == Get(S, c)
    IN  IF ts = 0 THEN RemoveSchedule(S, c)
        ELSE IF S.heap[ts].isPolling THEN S
        ELSE LET S1 == RemoveSchedule(
                         [S EXCEPT !.heap[ts].isPolling = TRUE,
                                   !.heap[ts].isScheduled = FALSE], c)
             IN  IF S1.heap[ts].mode = "recap"
                 THEN Suspend(S1, [kind |-> "legend", chatId |-> c, ts |-> ts])
                 ELSE EnqueueFirstPoll(S1, c)

\* beginActualPolling after the legend send returned or failed
beginActualPollingResume(S, k) ==
    LET S1 == IF S.heap[k.ts].mode = "recap"
              THEN [S EXCEPT !.heap[k.ts].recapIntervalId = "armed"]
              ELSE S
    IN  EnqueueFirstPoll(S1, k.chatId)

\* -------------------------------------------------------- sendRecapMessage
\* sendRecapMessage(chatId) up to its early return or to the await of the
\* send: the new state and the TickerState whose flush is suspended (0: none)
sendRecapMessage(S, c) ==
    LET ts == Get(S, c)
    IN  IF ts = 0 THEN [S |-> S, fts |-> 0]
        ELSE IF ~S.heap[ts].isPolling \/ S.heap[ts].recapEvents = <<>>
        THEN [S |-> [S EXCEPT !.heap[ts].recapEvents = <<>>], fts |-> 0]
        ELSE LET sorted == SortSeq(S.heap[ts].recapEvents,
                                   LAMBDA a, b : a < b)
             IN  [S |-> [S EXCEPT !.heap[ts].recapEvents = sorted,
                                  !.hist[ts].recaps = Append(@, Range(sorted))],
                  fts |-> ts]

\* a flush that leaves the buffer as it is after the send
sendRecapMessageResume_Keeps(S, fts) == S

\* after the send: tickerState.recapEvents = [] on both paths
sendRecapMessageResume(S, fts) == [S EXCEPT !.heap[fts].recapEvents = <<>>]

\* ------------------------------------------------------------- processEvents
\* A Worker suspended in an await: its Job, the TickerState it captured at
\* its start, where it waits (pc), the snapshot it fetched (number of
\* events), its position in the event loop, and the TickerState whose recap
\* flush it awaits.
NewWorker(job, ts) ==
    [type |-> job.type, chatId |-> job.chatId, ts |-> ts, pc |-> "fetch",
     snap |-> 0, i |-> 0, fts |-> 0]

Await(S, w) == [S EXCEPT !.workers = @ (+) SetToBag({w})]

\* a Worker that returns without giving its slot back
WorkerReturns_Leaks(S) == S

\* finally { activeWorkers--; }
WorkerReturns(S) == [S EXCEPT !.activeWorkers = @ - 1]

\* a poll branch that never persists the seen sets
pollReturns_NoSave(S, new) == WorkerReturns(S)

\* if (await processEvents(...)) saveSeenTickers(...), then the return
pollReturns(S, new) == WorkerReturns(IF new THEN saveSeenTickers(S) ELSE S)

\* the loop without its dedup check
IsSeen_Never(t, id) == FALSE

\* if (tickerState.seen.has(ev.id)) continue;
IsSeen(t, id) == id \in t.seen

\* the loop without its seen.add
MarkSeen_Forgets(t, id) == t

\* tickerState.seen.add(ev.id)
MarkSeen(t, id) == [t EXCEPT !.seen = @ \cup {id}]

\* the event a Worker suspended inside the loop is working on
EventAt(w) == ChronologicalEvents(w.snap)[w.i]

IsCriticalEvent(id) == EventType(id) \in {"StopPeriod", "StartPeriod"}

\* ev.time ? parseInt(ev.time.split(':')[0], 10) : 0; a missing clock is <<>>
MinuteOf(time) == IF time = <<>> THEN 0 ELSE time[1]

\* a game-end test that also fires at the regulation minute
GameEndTest_Inclusive(type, time) ==
    type = "StopPeriod" /\ MinuteOf(time) >= REGULATION_MINUTE

\* ev.type === "StopPeriod" and minute > 30
GameEndTest(type, time) ==
    type = "StopPeriod" /\ MinuteOf(time) > REGULATION_MINUTE

IsGameEnd(id) == GameEndTest(EventType(id), EventTime(id))

\* Game end up to the await of generateGameSummary: the flag, the recap
\* interval, one queued Job, and the stats message scheduled for +1s
GameEnd(S, w, i) ==
    Await([S EXCEPT !.heap[w.ts].isPolling = FALSE,
                    !.heap[w.ts].recapIntervalId = Cleared(@),
                    !.jobQueue = RemoveFirstJob(@, w.chatId),
                    !.hist[w.ts].windDowns = @ + 1,
                    !.stats = @ + 1,
                    !.tag = "terminal"],
          [w EXCEPT !.pc = "summary", !.i = i])

RECURSIVE processEvents(_, _, _, _)

\* "Handle Game End" for event i, then the next iteration
AfterCritical(S, w, i) ==
    IF IsGameEnd(ChronologicalEvents(w.snap)[i])
    THEN GameEnd(S, w, i)
    ELSE processEvents(S, w, i + 1, TRUE)

\* critical events handled like any other event
AfterStore_NoCriticalFlush(S, w, i) == AfterCritical(S, w, i)

\* "Handle Critical Events" for event i and what follows
AfterStore(S, w, i) ==
    IF IsCriticalEvent(ChronologicalEvents(w.snap)[i])
       /\ S.heap[w.ts].mode = "recap"
    THEN LET r == sendRecapMessage(S, w.chatId)
         IN  IF r.fts # 0
             THEN Await(r.S, [w EXCEPT !.pc = "recap", !.i = i, !.fts = r.fts])
             ELSE AfterCritical(r.S, w, i)
    ELSE AfterCritical(S, w, i)

\* the for loop of processEvents from position i of the chronological list,
\* up to the next await or to the return; new = newUnseenEventsProcessed
processEvents(S, w, i, new) ==
    IF i > w.snap THEN pollReturns(S, new)
    ELSE LET id == ChronologicalEvents(w.snap)[i]
         IN  IF IsSeen(S.heap[w.ts], id)
             THEN processEvents([S EXCEPT !.skipped = @ \cup {id}],
                                w, i + 1, new)
             ELSE LET S1 == [S EXCEPT !.heap[w.ts] = MarkSeen(@, id)]
                  IN  IF S1.heap[w.ts].mode = "live"
                      THEN Await(HandEvent(S1, w.ts, id),
                                 [w EXCEPT !.pc = "send", !.i = i])
                      ELSE AfterStore(
                             [S1 EXCEPT !.heap[w.ts].recapEvents =
                                            Append(@, id)], w, i)

\* the deferred timers set after generateGameSummary returned (r = "text",
\* "empty") or threw (r = "throw"), the break and the return of true
GameEndResume(S, w, r) ==
    pollReturns(
        [S EXCEPT !.summaries = IF r = "text" THEN @ + 1 ELSE @,
                  !.cleanupTimers[w.chatId] = @ + 1], TRUE)

\* ----------------------------------------------------------------- runWorker
\* the pre-check of runWorker and the start of the fetch
runWorker(S, job) ==
    LET ts == Get(S, job.chatId)
    IN  IF \/ ts = 0
           \/ (job.type = "poll" /\ ~S.heap[ts].isPolling)
           \/ (job.type = "schedule" /\ ~S.heap[ts].isScheduling)
        THEN [WorkerReturns(S) EXCEPT !.tag = "discard"]
        ELSE Await(S, NewWorker(job, ts))

\* a catch that removes the ticker whatever the Job's type
WorkerCatch_Removes(S, w) == WorkerReturns(MapDelete(S, w.chatId))

\* catch (error) of runWorker for a schedule Job, up to the await of the
\* failure notice; a poll Job only logs
WorkerCatch(S, w) ==
    IF w.type = "schedule"
    THEN Await(S, [w EXCEPT !.pc = "fail_notice"])
    ELSE WorkerReturns(S)

\* the poll branch without its version test
pollBranch_NoVersionCheck(S, w, k, v) ==
    processEvents([S EXCEPT !.heap[w.ts].lastUpdatedAt = v],
                  [w EXCEPT !.snap = k], 1, FALSE)

\* the poll branch for a payload of k events with version marker v:
\* if (newUpdatedAt && newUpdatedAt !== tickerState.lastUpdatedAt)
pollBranch(S, w, k, v) ==
    IF v # NoVersion /\ v # S.heap[w.ts].lastUpdatedAt
    THEN processEvents([S EXCEPT !.heap[w.ts].lastUpdatedAt = v],
                       [w EXCEPT !.snap = k], 1, FALSE)
    ELSE [WorkerReturns(S) EXCEPT !.tag = "unchanged"]

\* the poll branch after a successful fetch of k events
PollFetched(S, w, k) == pollBranch(S, w, k, FeedVersion(k))

\* the schedule branch after a successful fetch, up to the await of the
\* notice; future: delay > 0
ScheduleFetched(S, w, k, future) ==
    Await([S EXCEPT !.heap[w.ts].lastUpdatedAt = FeedVersion(k)],
          [w EXCEPT !.pc = IF future THEN "sched_notice" ELSE "start_notice"])

\* delay > 0, after the notice was sent
ScheduleArmed(S, w) ==
    WorkerReturns(
        [S EXCEPT !.heap[w.ts].isPolling = FALSE,
                  !.heap[w.ts].isScheduled = TRUE,
                  !.scheduleFile = @ \cup {w.chatId},
                  !.orphanTimers[w.chatId] =
                      IF S.heap[w.ts].scheduleTimeout = "armed"
                      THEN @ + 1 ELSE @,
                  !.heap[w.ts].scheduleTimeout = "armed",
                  !.tag = "scheduled"])

\* delay <= 0, after the notice was sent; beginActualPolling is not awaited
ScheduleStartsNow(S, w) ==
    WorkerReturns(
        beginActualPolling([S EXCEPT !.heap[w.ts].isScheduling = FALSE],
                           w.chatId))

\* the catch of a schedule Job after the failure notice was sent
ScheduleFailed(S, w) ==
    WorkerReturns(
        [RemoveSchedule(MapDelete(S, w.chatId), w.chatId)
            EXCEPT !.tag = "schedule_failed"])

\* ----------------------------------------------- the two periodic tasks
\* masterScheduler() without its look into the queue
masterScheduler_NoQueueCheck(S) ==
    LET pollingTickers ==
            SelectSeq(S.activeTickers, LAMBDA e : S.heap[e.ts].isPolling)
    IN  IF Len(pollingTickers) = 0 THEN S
        ELSE LET idx == (S.lastPolledIndex + 1) % Len(pollingTickers)
                 c   == pollingTickers[idx + 1].chatId
             IN  [S EXCEPT !.lastPolledIndex = idx,
                           !.tag = c,
                           !.jobQueue = Append(@, PollJob(c))]

\* masterScheduler(): one round-robin selection among the polling tickers
masterScheduler(S) ==
    LET pollingTickers ==
            SelectSeq(S.activeTickers, LAMBDA e : S.heap[e.ts].isPolling)
    IN  IF Len(pollingTickers) = 0 THEN S
        ELSE LET idx == (S.lastPolledIndex + 1) % Len(pollingTickers)
                 c   == pollingTickers[idx + 1].chatId
             IN  [S EXCEPT !.lastPolledIndex = idx,
                           !.tag = c,
                           !.jobQueue =
                               IF ~HasJob(S.jobQueue, c, "poll")
                               THEN Append(@, PollJob(c)) ELSE @]

\* dispatcherLoop() without the activeWorkers < MAX_WORKERS condition
dispatcherLoop_NoBudget(S) ==
    IF Len(S.jobQueue) > 0
    THEN runWorker([S EXCEPT !.activeWorkers = @ + 1,
                             !.jobQueue = Tail(@)],
                   Head(S.jobQueue))
    ELSE [S EXCEPT !.tag = "idle"]

\* dispatcherLoop(): at most one Worker is started per tick
dispatcherLoop(S) ==
    IF Len(S.jobQueue) > 0 /\ S.activeWorkers < MAX_WORKERS
    THEN runWorker([S EXCEPT !.activeWorkers = @ + 1,
                             !.jobQueue = Tail(@)],
                   Head(S.jobQueue))
    ELSE [S EXCEPT !.tag = "idle"]

\* ------------------------------------------------------- command handlers
\* !start1: the guard of the handler
AlreadyActive(S, c) ==
    /\ Has(S, c)
    /\ (S.heap[Get(S, c)].isPolling \/ S.heap[Get(S, c)].isScheduled)

\* !stop1
stopTicker(S, c) ==
    LET ts == Get(S, c)
    IN  IF ts = 0 THEN S
        ELSE LET t  == S.heap[ts]
                 a  == t.isScheduled /\ t.scheduleTimeout # "none"
                 S1 == IF a
                       THEN RemoveSchedule(
                              [S EXCEPT !.heap[ts].scheduleTimeout = Cleared(@),
                                        !.heap[ts].isScheduled = FALSE], c)
                       ELSE S
                 S2 == IF t.isPolling
                       THEN [S1 EXCEPT !.heap[ts].isPolling = FALSE,
                                       !.heap[ts].recapIntervalId = Cleared(@)]
                       ELSE S1
             IN  [S2 EXCEPT !.jobQueue = RemoveFirstJob(@, c),
                            !.tag = IF a \/ t.isPolling
                                    THEN "stopped" ELSE "none"]

\* !reset1
resetTicker(S, c) ==
    LET ts == Get(S, c)
        S1 == IF ts = 0 THEN S
              ELSE [S EXCEPT !.heap[ts].scheduleTimeout = Cleared(@),
                             !.heap[ts].recapIntervalId = Cleared(@),
                             !.heap[ts].isPolling = FALSE,
                             !.heap[ts].isScheduled = FALSE,
                             !.jobQueue = RemoveFirstJob(@, c)]
    IN  RemoveSchedule(saveSeenTickers(MapDelete(S1, c)), c)

\* ---------------------------------------------------------------- actions
Init ==
    /\ chats = {"c1"}
    /\ modes \in {{m} : m \in Modes}
    /\ activeTickers = <<>>
    /\ heap = <<>>
    /\ jobQueue = <<>>
    /\ activeWorkers = 0
    /\ lastPolledIndex = -1
    /\ workers = EmptyBag
    /\ conts = EmptyBag
    /\ orphanTimers = [c \in AllChats |-> 0]
    /\ cleanupTimers = [c \in AllChats |-> 0]
    /\ scheduleFile = {}
    /\ seenFile = [c \in {} |-> {}]
    /\ feedLen = 0
    /\ creates = 0
    /\ hist = <<>>

\* !start1 <url> [recap] with a valid URL, up to the await of the "wird
\* bearbeitet" notice, which returns (r = "ok") or throws into the catch
startCommand(S, c, mode, r) ==
    IF AlreadyActive(S, c) THEN [S EXCEPT !.tag = "rejected"]
    ELSE IF r = "error"
    THEN Suspend(queueTickerScheduling(S, c, mode),
                 [kind |-> "start_failed", chatId |-> c, ts |-> 0])
    ELSE queueTickerScheduling(S, c, mode)

\* the catch of the !start1 handler after its reply was sent
startFailed(S, k, r) == IF r = "ok" THEN MapDelete(S, k.chatId) ELSE S

\* !start1 accepted; the behaviour accepts MaxCreates commands, and
\* MaxRecapCreates when its tickers run in recap mode
CreateTicker(c, mode, r) ==
    /\ ~AlreadyActive(Cur, c)
    /\ creates < (IF mode = "recap" THEN MaxRecapCreates ELSE MaxCreates)
    /\ creates' = creates + 1
    /\ Commit(startCommand(Cur, c, mode, r))

\* !start1 while a ticker runs or is scheduled
CreateRejected(c, mode) ==
    /\ AlreadyActive(Cur, c)
    /\ UNCHANGED creates
    /\ Commit(startCommand(Cur, c, mode, "ok"))

Resume(k) == [Cur EXCEPT !.conts = @ (-) SetToBag({k})]

StartFailed(k, r) ==
    /\ k.kind = "start_failed"
    /\ UNCHANGED creates
    /\ Commit(startFailed(Resume(k), k, r))

StopTicker(c) ==
    /\ UNCHANGED creates
    /\ Commit(stopTicker(Cur, c))

ResetTicker(c) ==
    /\ UNCHANGED creates
    /\ Commit(resetTicker(Cur, c))

MasterSchedulerTick ==
    /\ UNCHANGED creates
    /\ Commit(masterScheduler(Cur))

DispatcherTick ==
    /\ UNCHANGED creates
    /\ Commit(dispatcherLoop(Cur))

\* a suspended Worker is resumed: it leaves the bag until it awaits again
Resumed(w) == [Cur EXCEPT !.workers = @ (-) SetToBag({w})]

\* the slice of runWorker after axios.get returned a payload with k events
fetchReturns(S, w, k, future) ==
    IF w.type = "schedule"
    THEN ScheduleFetched([S EXCEPT !.feedLen = k], w, k, future)
    ELSE PollFetched([S EXCEPT !.feedLen = k], w, k)

\* axios.get returned a payload with summary and events; the feed holds k
\* events by now
FetchReturns(w, k, future) ==
    /\ w.pc = "fetch"
    /\ (w.type = "poll" => future)
    /\ UNCHANGED creates
    /\ Commit(fetchReturns(Resumed(w), w, k, future))

\* axios.get timed out or failed, or the payload lacks summary or events
FetchFails(w) ==
    /\ w.pc = "fetch"
    /\ UNCHANGED creates
    /\ Commit([WorkerCatch(Resumed(w), w) EXCEPT !.tag = "fetch_error"])

\* the slice of a schedule Worker after the send of its notice returned
\* (r = "ok") or threw
noticeSent(S, w, r) ==
    CASE w.pc = "fail_notice" /\ r = "ok" -> ScheduleFailed(S, w)
      [] w.pc = "fail_notice" /\ r = "error" -> WorkerReturns(S)
      [] w.pc # "fail_notice" /\ r = "error" -> WorkerCatch(S, w)
      [] w.pc = "sched_notice" /\ r = "ok" -> ScheduleArmed(S, w)
      [] OTHER -> ScheduleStartsNow(S, w)

NoticeSent(w, r) ==
    /\ w.pc \in {"sched_notice", "start_notice", "fail_notice"}
    /\ UNCHANGED creates
    /\ Commit(noticeSent(Resumed(w), w, r))

\* the slice of processEvents after the send of a live event's message
\* returned or threw (caught and logged)
eventSent(S, w, r) ==
    AfterStore(IF r = "ok"
               THEN [S EXCEPT !.delivered =
                                  @ \cup {EventAt(w)}]
               ELSE S, w, w.i)

EventSent(w, r) ==
    /\ w.pc = "send"
    /\ UNCHANGED creates
    /\ Commit(eventSent(Resumed(w), w, r))

\* the recap flush a critical event triggered returned to processEvents
CriticalFlushSent(w) ==
    /\ w.pc = "recap"
    /\ UNCHANGED creates
    /\ Commit(AfterCritical(sendRecapMessageResume(Resumed(w), w.fts),
                            w, w.i))

\* generateGameSummary returned a text, the empty string, or threw
SummaryReturns(w, r) ==
    /\ w.pc = "summary"
    /\ UNCHANGED creates
    /\ Commit(GameEndResume(Resumed(w), w, r))

\* the legend send of beginActualPolling returned or threw (caught)
LegendSent(k) ==
    /\ k.kind = "legend"
    /\ UNCHANGED creates
    /\ Commit(beginActualPollingResume(Resume(k), k))

\* the send of a timer-triggered recap flush returned or threw
FlushSent(k) ==
    /\ k.kind = "flush"
    /\ UNCHANGED creates
    /\ Commit(sendRecapMessageResume(Resume(k), k.ts))

\* tickerState.scheduleTimeout fires: beginActualPolling(chatId)
scheduleTimerFires(S, o) ==
    beginActualPolling([S EXCEPT !.heap[o].scheduleTimeout = "dead"],
                       S.heap[o].chatId)

ScheduleTimerFires(o) ==
    /\ heap[o].scheduleTimeout = "armed"
    /\ UNCHANGED creates
    /\ Commit(scheduleTimerFires(Cur, o))

\* a schedule timer whose handle was overwritten fires
OrphanTimerFires(c) ==
    /\ orphanTimers[c] > 0
    /\ UNCHANGED creates
    /\ Commit(beginActualPolling([Cur EXCEPT !.orphanTimers[c] = @ - 1], c))

\* tickerState.recapIntervalId fires: sendRecapMessage(chatId) up to its
\* return or to the await of its send
recapTimerFires(S, o) ==
    LET r == sendRecapMessage(S, S.heap[o].chatId)
    IN  IF r.fts # 0
        THEN Suspend(r.S, [kind |-> "flush", chatId |-> S.heap[o].chatId,
                           ts |-> r.fts])
        ELSE r.S

\* The interval is 5 minutes: the send of the flush the previous firing
\* started has returned before the timer fires again.
RecapTimerFires(o) ==
    /\ heap[o].recapIntervalId = "armed"
    /\ ~\E k \in BagToSet(conts) :
            k.kind = "flush" /\ k.chatId = heap[o].chatId
    /\ UNCHANGED creates
    /\ Commit(recapTimerFires(Cur, o))

\* the deferred cleanup set at game end, after the retention window
cleanupTimerFires(S, c) ==
    LET S0 == [S EXCEPT !.cleanupTimers[c] = @ - 1]
    IN  IF Has(S0, c) THEN saveSeenTickers(MapDelete(S0, c)) ELSE S0

CleanupTimerFires(c) ==
    /\ cleanupTimers[c] > 0
    /\ UNCHANGED creates
    /\ Commit(cleanupTimerFires(Cur, c))

\* ================================================================ claims
\* number of poll Jobs for chat c in queue q
QueuedPollJobs(q, c) == Cardinality({j \in 1..Len(q) : q[j] = PollJob(c)})

\* number of suspended Workers that satisfy P
CountWorkers(P(_)) ==
    BagCardinality([w \in {x \in BagToSet(workers) : P(x)} |-> workers[w]])

\* poll Jobs of chat c a Worker has claimed and not yet returned from
InFlightPollJobs(c) ==
    CountWorkers(LAMBDA w : w.type = "poll" /\ w.chatId = c)

Occurrences(s, id) == Cardinality({j \in 1..Len(s) : s[j] = id})

\* seenEventIds of chat c: the `seen` set of its registry entry
SeenIds(c) == IF Has(Cur, c) THEN heap[Get(Cur, c)].seen ELSE {}

\* events of TickerState o a suspended Worker has marked seen and is still
\* working on (its send or its critical flush is awaited)
InProgress(o) ==
    {EventAt(w) : w \in {x \in BagToSet(workers) :
                            x.ts = o /\ x.pc \in {"send", "recap"}}}

\* the slices a suspended poll Worker can run next
NextSlices(w) ==
    CASE w.pc = "fetch" /\ w.type = "poll" ->
            {fetchReturns(Resumed(w), w, k, TRUE) : k \in feedLen..MaxFeed}
      [] w.pc = "send" ->
            {eventSent(Resumed(w), w, r) : r \in SendOutcomes}
      [] w.pc = "recap" ->
            {AfterCritical(sendRecapMessageResume(Resumed(w), w.fts), w, w.i)}
      [] OTHER -> {}

\* ------------------------------------------------------------------- C1
\* C1: in every reachable state the Job Queue holds at most one Job of kind
\* poll per chatId.
C1_OnePollJobQueued == \A c \in AllChats : QueuedPollJobs(jobQueue, c) <= 1

\* a Master Scheduler tick selects a polling ticker whose poll Job is still
\* queued, and enqueues nothing
C1_Witness ==
    \E c \in chats :
        /\ PhaseOf(Cur, c) = "Polling"
        /\ HasJob(jobQueue, c, "poll")
        /\ masterScheduler(Cur).tag = c
        /\ masterScheduler(Cur).jobQueue = jobQueue

\* ------------------------------------------------------------------- C2
\* C2: at most one poll Job per chatId is outstanding, queued or claimed by
\* a Worker that has not returned yet.
C2_OneOutstandingPollJob ==
    \A c \in AllChats : QueuedPollJobs(jobQueue, c) + InFlightPollJobs(c) <= 1

\* ------------------------------------------------------------------- C3
\* C3: the number of Workers running at the same time never exceeds
\* MAX_WORKERS, and neither does the Dispatcher's counter.
C3_WorkerBound ==
    /\ BagCardinality(workers) <= MAX_WORKERS
    /\ activeWorkers <= MAX_WORKERS

\* MAX_WORKERS Workers run, a Job waits, and a Dispatcher tick starts nothing
C3_Witness ==
    /\ BagCardinality(workers) = MAX_WORKERS
    /\ Len(jobQueue) > 0
    /\ dispatcherLoop(Cur).tag = "idle"

\* ------------------------------------------------------------------- C4
\* C4: in live mode a TickerState hands the messages of its events to the
\* Messenger oldest first: an older event is never handed over after a newer
\* one.
C4_LiveOrder ==
    \A o \in 1..Len(hist) :
        \A i, j \in 1..Len(hist[o].handed) :
            i < j => hist[o].handed[i] < hist[o].handed[j]

\* two poll Workers of one TickerState run concurrently and several events
\* were handed over
C4_Witness ==
    \E o \in 1..Len(hist) :
        /\ Len(hist[o].handed) >= 3
        /\ CountWorkers(LAMBDA w : w.type = "poll" /\ w.ts = o /\ w.snap > 0)
               >= 2

\* ------------------------------------------------------------------- C5
\* C5: every event of a snapshot processed for a live-mode ticker is
\* delivered exactly once: no event is handed to the Messenger twice, and
\* when the send of an event returns, the event was delivered or is still
\* unseen, so that a later poll delivers it.
C5_ExactlyOnce ==
    /\ \A o \in 1..Len(hist) : \A id \in 1..MaxFeed :
            Occurrences(hist[o].handed, id) <= 1
    /\ \A w \in BagToSet(workers) : \A r \in SendOutcomes :
            w.pc = "send" =>
                LET S2 == eventSent(Resumed(w), w, r)
                IN  \/ EventAt(w) \in S2.delivered
                    \/ EventAt(w) \notin S2.heap[w.ts].seen

\* ------------------------------------------------------------------- C6
\* C6 (as stated): for every chatId the seen set only grows across any step
\* other than resetTicker of that chat.
C6_SeenOnlyGrows ==
    [][\A c \in chats :
          ResetTicker(c) \/ SeenIds(c) \subseteq SeenIds(c)']_vars

\* C6 (amended): for every chatId the seen set only grows across any step
\* that keeps the chat's registry entry.
C6_SeenGrowsWhileRegistered ==
    [][\A c \in chats :
          (Has(Cur, c) /\ Has(Cur, c)') =>
              SeenIds(c) \subseteq SeenIds(c)']_vars

\* !start1 was accepted for an existing entry that has seen events
C6_Witness ==
    \E c \in chats : PhaseOf(Cur, c) = "Scheduling" /\ SeenIds(c) # {}

\* ------------------------------------------------------------------- C7
\* C7: an event that is in a TickerState's seen set (and is not the event a
\* suspended Worker is still working on) has no effect in any step: no
\* message is handed over for it, it is not appended to recapEvents, no
\* critical flush is started for it and no terminal wind-down runs for it.
C7_SeenEventNoEffect ==
    [][\A o \in 1..Len(heap) : \A id \in heap[o].seen \ InProgress(o) :
          /\ Occurrences(hist'[o].handed, id)
                 = Occurrences(hist[o].handed, id)
          /\ Occurrences(heap'[o].recapEvents, id)
                 <= Occurrences(heap[o].recapEvents, id)
          /\ ~\E w \in BagToSet(workers') :
                 w.ts = o /\ w.pc = "recap" /\ EventAt(w) = id
          /\ (IsGameEnd(id) => hist'[o].windDowns = hist[o].windDowns)]_vars

\* a poll Worker is about to process a snapshot that holds seen events
C7_Witness ==
    \E w \in BagToSet(workers) : \E S2 \in NextSlices(w) : S2.skipped # {}

\* ------------------------------------------------------------------- C8
\* C8: in the step in which a poll Worker detects the end of the game, the
\* Job Queue ends up without any Job for that chatId and the TickerState is
\* no longer polling.
C8_TerminalClearsJobs ==
    [][\A o \in 1..Len(hist) :
          hist'[o].windDowns > hist[o].windDowns =>
              /\ ~HasAnyJob(jobQueue', heap[o].chatId)
              /\ ~heap'[o].isPolling]_vars

TimersCancelled(S, c, ts) ==
    /\ S.orphanTimers[c] = 0
    /\ ts # 0 => /\ S.heap[ts].scheduleTimeout # "armed"
                 /\ S.heap[ts].recapIntervalId # "armed"

\* C10: after stopTicker or resetTicker for a chatId the Job Queue holds no
\* Job for it, its timers are cancelled and it is not Scheduling, Scheduled
\* or Polling.
C10_StopResetPost ==
    \A c \in chats :
        \A S2 \in {stopTicker(Cur, c), resetTicker(Cur, c)} :
            /\ ~HasAnyJob(S2.jobQueue, c)
            /\ TimersCancelled(S2, c, Get(Cur, c))
            /\ PhaseOf(S2, c) \notin {"Scheduling", "Scheduled", "Polling"}

\* ------------------------------------------------------------------ C11
\* registry, TickerStates with their timer handles, Job Queue, timers and
\* persisted snapshots of two program states are the same
SameProgramState(S1, S2) ==
    /\ S1.activeTickers = S2.activeTickers
    /\ S1.heap = S2.heap
    /\ S1.jobQueue = S2.jobQueue
    /\ S1.orphanTimers = S2.orphanTimers
    /\ S1.cleanupTimers = S2.cleanupTimers
    /\ S1.scheduleFile = S2.scheduleFile
    /\ S1.seenFile = S2.seenFile

\* resetTicker twice in a row ends in the state one call ends in
ResetIdempotent ==
    \A c \in chats :
        SameProgramState(resetTicker(resetTicker(Cur, c), c),
                         resetTicker(Cur, c))

\* C11: from any reachable state stopTicker twice in a row on a chatId ends
\* in the state one call ends in, and so does resetTicker.
C11_StopResetIdempotent ==
    /\ \A c \in chats :
          SameProgramState(stopTicker(stopTicker(Cur, c), c),
                           stopTicker(Cur, c))
    /\ ResetIdempotent

\* ------------------------------------------------------------------ C12
\* the state in which a schedule Worker returns when its fetch fails now and
\* the send of its failure notice has outcome r
AfterFailedScheduleFetch(w, r) ==
    LET w1 == [w EXCEPT !.pc = "fail_notice"]
        S1 == WorkerCatch(Resumed(w), w)
    IN  noticeSent([S1 EXCEPT !.workers = @ (-) SetToBag({w1})], w1, r)

\* C12: when the fetch of a schedule Job fails, the Worker returns with the
\* failure notice sent, the ticker absent from the registry, no entry for
\* the chat in the persisted schedule map and no Job added to the queue.
C12_ScheduleFetchFailureCleansUp ==
    \A w \in BagToSet(workers) : \A r \in SendOutcomes :
        (w.pc = "fetch" /\ w.type = "schedule") =>
            LET S2 == AfterFailedScheduleFetch(w, r)
            IN  /\ S2.tag = "schedule_failed"
                /\ ~Has(S2, w.chatId)
                /\ w.chatId \notin S2.scheduleFile
                /\ S2.jobQueue = jobQueue

\* ------------------------------------------------------------------ C13
\* the state in which a poll Worker returns when its fetch fails now
AfterFailedPollFetch(w) == WorkerCatch(Resumed(w), w)

\* C13: a fetch failure of a poll Job changes nothing but the Worker's
\* return: registry, TickerStates (phase, seen, lastUpdatedAt, recapEvents,
\* timer handles), Job Queue, timers and persisted snapshots are unchanged,
\* and a Master Scheduler tick on a ticker that is Polling with no poll Job
\* queued enqueues a new one.
C13_PollFetchFailureHarmless ==
    \A w \in BagToSet(workers) :
        (w.pc = "fetch" /\ w.type = "poll") =>
            LET S2 == AfterFailedPollFetch(w)
            IN  /\ SameProgramState(S2, Cur)
                /\ S2.conts = conts
                /\ S2.activeWorkers = activeWorkers - 1
                /\ (PhaseOf(S2, w.chatId) = "Polling"
                        /\ ~HasJob(S2.jobQueue, w.chatId, "poll")
                    => HasJob(masterScheduler(S2).jobQueue, w.chatId, "poll"))

\* the fetch of the only poll Job of a ticker that is Polling and has seen
\* events is about to fail, and the next tick re-enqueues a poll Job
C13_Witness ==
    \E w \in BagToSet(workers) :
        /\ w.pc = "fetch" /\ w.type = "poll"
        /\ PhaseOf(Cur, w.chatId) = "Polling"
        /\ heap[w.ts].seen # {}
        /\ ~HasJob(jobQueue, w.chatId, "poll")
        /\ HasJob(masterScheduler(AfterFailedPollFetch(w)).jobQueue,
                  w.chatId, "poll")

\* ------------------------------------------------------------------ C14
\* the state in which a schedule Worker that awaits the send of its
\* "scheduled" or "starts now" notice returns, when that send has outcome r
\* and a failure notice, if one follows, is sent
AfterScheduleNotice(w, r) ==
    LET S1 == noticeSent(Resumed(w), w, r)
        w1 == [w EXCEPT !.pc = "fail_notice"]
    IN  IF r = "error"
        THEN noticeSent([S1 EXCEPT !.workers = @ (-) SetToBag({w1})], w1, "ok")
        ELSE S1

\* C14: a SendError is not fatal and touches only its message: the send of a
\* live event or of a schedule Worker's notice that throws leaves the ticker
\* present and in the phase it has when the send succeeds.
C14_SendErrorNotFatal ==
    \A w \in BagToSet(workers) :
        /\ w.pc = "send" =>
              SameProgramState(eventSent(Resumed(w), w, "error"),
                               eventSent(Resumed(w), w, "ok"))
        /\ w.pc \in {"sched_notice", "start_notice"} =>
              /\ Has(AfterScheduleNotice(w, "error"), w.chatId)
                     = Has(AfterScheduleNotice(w, "ok"), w.chatId)
              /\ PhaseOf(AfterScheduleNotice(w, "error"), w.chatId)
                     = PhaseOf(AfterScheduleNotice(w, "ok"), w.chatId)

\* ------------------------------------------------------------------ C15
\* C15: !start1 for a chatId whose entry is Scheduling, Scheduled or Polling
\* is rejected and changes nothing: the TickerState is not modified and no
\* schedule Job is enqueued.
C15_CreateRejectedWhenActive ==
    \A c \in chats : \A mode \in Modes : \A r \in SendOutcomes :
        PhaseOf(Cur, c) \in {"Scheduling", "Scheduled", "Polling"} =>
            LET S2 == startCommand(Cur, c, mode, r)
            IN  /\ S2.tag = "rejected"
                /\ SameProgramState(S2, Cur)

\* ------------------------------------------------------------------ C16
\* TickerState o waits for its schedule timer
AwaitsScheduleTimer(o) ==
    /\ heap[o].isScheduled
    /\ ~heap[o].isPolling
    /\ heap[o].scheduleTimeout = "armed"

\* a schedule Worker that found the start time in the future returns with
\* its TickerState Scheduled, the timer armed and the schedule entry written
ScheduledOnFutureStart ==
    \A w \in BagToSet(workers) :
        w.pc = "sched_notice" =>
            LET S2 == noticeSent(Resumed(w), w, "ok")
            IN  /\ Phase(S2.heap[w.ts]) = "Scheduled"
                /\ S2.heap[w.ts].scheduleTimeout = "armed"
                /\ w.chatId \in S2.scheduleFile

\* C16: once a schedule Job has put a ticker into Scheduled with its timer
\* armed, no step other than the firing of a schedule timer of the chat
\* enqueues a poll Job for that chatId.
C16_NoPollJobBeforeTimer ==
    [][\A o \in 1..Len(heap) :
          (/\ AwaitsScheduleTimer(o)
           /\ Get(Cur, heap[o].chatId) = o
           /\ ~ScheduleTimerFires(o)
           /\ ~OrphanTimerFires(heap[o].chatId))
          => QueuedPollJobs(jobQueue', heap[o].chatId)
                 <= QueuedPollJobs(jobQueue, heap[o].chatId)]_vars

\* ------------------------------------------------------------------ C17
\* C17: the persisted schedule map has an entry for a chatId exactly when
\* the chat's ticker is in phase Scheduled.
C17_ScheduleEntryIffScheduled ==
    \A c \in AllChats : c \in scheduleFile <=> PhaseOf(Cur, c) = "Scheduled"

\* ------------------------------------------------------------------ C18
\* C18: when a recap flush returns, the recapEvents buffer of its
\* TickerState is empty: a flush that returns without sending, a
\* timer-triggered flush whose send returned or threw, and a flush a
\* critical event triggered.
C18_BufferEmptyAfterFlush ==
    /\ \A c \in chats :
          LET r == sendRecapMessage(Cur, c)
          IN  (Has(Cur, c) /\ r.fts = 0) =>
                  r.S.heap[Get(Cur, c)].recapEvents = <<>>
    /\ \A k \in BagToSet(conts) :
          k.kind = "flush" =>
              sendRecapMessageResume(Resume(k), k.ts)
                  .heap[k.ts].recapEvents = <<>>
    /\ \A w \in BagToSet(workers) :
          w.pc = "recap" =>
              sendRecapMessageResume(Resumed(w), w.fts)
                  .heap[w.fts].recapEvents = <<>>

\* the send of a timer-triggered flush and the send of a flush a critical
\* event triggered are awaited, with events in the buffer
C18_Witness ==
    /\ \E k \in BagToSet(conts) :
          k.kind = "flush" /\ heap[k.ts].recapEvents # <<>>
    /\ \E w \in BagToSet(workers) :
          w.pc = "recap" /\ heap[w.fts].recapEvents # <<>>

\* ------------------------------------------------------------------ C19
\* the events of a snapshot of k events that TickerState t has not seen
UnseenEvents(t, k) == {id \in 1..k : ~IsSeen(t, id)}

Min(ids) == CHOOSE m \in ids : \A n \in ids : m <= n

\* The slice of a poll Worker of a recap-mode TickerState that processes a
\* snapshot of k events whose first unseen critical event is m ends in the
\* await of one recap message that holds the events buffered before and
\* the unseen events up to and including m, and the return of that send
\* leaves the buffer empty.
CriticalFlushAtOnce(w, k) ==
    LET t    == heap[w.ts]
        crit == {id \in UnseenEvents(t, k) : IsCriticalEvent(id)}
        S2   == fetchReturns(Resumed(w), w, k, TRUE)
    IN  (FeedVersion(k) # t.lastUpdatedAt /\ crit # {}) =>
            /\ \E w2 \in BagToSet(S2.workers) :
                   /\ w2.pc = "recap" /\ w2.ts = w.ts /\ w2.fts = w.ts
                   /\ EventAt(w2) = Min(crit)
                   /\ sendRecapMessageResume(S2, w2.fts)
                          .heap[w.ts].recapEvents = <<>>
            /\ Len(S2.hist[w.ts].recaps) = Len(hist[w.ts].recaps) + 1
            /\ S2.hist[w.ts].recaps[Len(S2.hist[w.ts].recaps)]
                   = Range(t.recapEvents)
                       \cup {id \in UnseenEvents(t, k) : id <= Min(crit)}

C21_TerminatedStays ==
    [][\A o \in 1..Len(heap) :
          Phase(heap[o]) = "Terminated"
              => Phase(heap'[o]) \notin {"Scheduling", "Polling"}]_vars

\* ------------------------------------------------------------------ C22
\* C22: activeWorkers equals the number of Workers that were started and
\* have not returned; it is never negative and never leaks a slot.
C22_CounterMatchesWorkers ==
    /\ activeWorkers = BagCardinality(workers)
    /\ activeWorkers >= 0

\* a Worker is about to leave through the failure notice of a schedule Job
\* after another Worker has returned
C22_Witness ==
    /\ \E w \in BagToSet(workers) : w.pc = "fail_notice"
    /\ activeWorkers = 1
    /\ \E o \in 1..Len(heap) : heap[o].isPolling

\* ------------------------------------------------------------------ C23
\* the Job no longer matches the phase of its ticker
StaleJob(S, job) ==
    \/ ~Has(S, job.chatId)
    \/ job.type = "poll" /\ PhaseOf(S, job.chatId) # "Polling"
    \/ job.type = "schedule" /\ PhaseOf(S, job.chatId) # "Scheduling"

\* the Worker the Dispatcher starts returns at once: no fetch is begun and
\* no ticker state is changed
Discarded(S2) ==
    /\ S2.tag = "discard"
    /\ S2.workers = workers
    /\ S2.activeWorkers = activeWorkers
    /\ SameProgramState([S2 EXCEPT !.jobQueue = jobQueue], Cur)

\* C23: a Worker discards its Job, without fetching and without changing
\* ticker state, when at its start the ticker is absent, or the Job is a
\* poll Job and the ticker is not Polling, or the Job is a schedule Job and
\* the ticker is not in phase Scheduling.
C23_StaleJobDiscarded ==
    (/\ Len(jobQueue) > 0 /\ activeWorkers < MAX_WORKERS
     /\ StaleJob(Cur, Head(jobQueue)))
        => Discarded(dispatcherLoop(Cur))

\* ------------------------------------------------------------------ C24
\* C24: after a Dispatcher tick either the Job Queue is empty or
\* activeWorkers equals MAX_WORKERS.
C24_DispatcherDrains ==
    LET S2 == dispatcherLoop(Cur)
    IN  Len(S2.jobQueue) = 0 \/ S2.activeWorkers = MAX_WORKERS

\* ------------------------------------------------------------------ C25
\* beginActualPolling has set the ticker of chat c to Polling and has not
\* reached its enqueue yet
FirstPollPending(c) ==
    \E k \in BagToSet(conts) : k.kind = "legend" /\ k.chatId = c

\* C25: when a ticker has become Polling and no poll Job for it is queued,
\* its first poll Job is placed at the front of the Job Queue.
C25_FirstPollJobInFront ==
    [][\A c \in AllChats :
          (/\ ~HasJob(jobQueue, c, "poll") /\ HasJob(jobQueue', c, "poll")
           /\ \/ PhaseOf(Cur, c) # "Polling"
              \/ FirstPollPending(c))
              => Head(jobQueue') = PollJob(c)]_vars

\* ------------------------------------------------------------------ C26
\* C26: beginActualPolling for a chat whose ticker is already Polling
\* changes nothing; for an absent chat it creates no ticker and no Job;
\* and after any invocation, also one that resumes after its legend send,
\* at most one poll Job of the chat is queued.
C26_BeginPollingIdempotent ==
    /\ \A c \in AllChats :
          LET S2 == beginActualPolling(Cur, c)
          IN  /\ PhaseOf(Cur, c) = "Polling" => S2 = Cur
              /\ ~Has(Cur, c) =>
                    /\ S2.activeTickers = activeTickers /\ S2.heap = heap
                    /\ S2.jobQueue = jobQueue /\ S2.conts = conts
              /\ QueuedPollJobs(S2.jobQueue, c) <= 1
    /\ \A o \in 1..Len(heap) :
          (heap[o].scheduleTimeout = "armed" /\ heap[o].isPolling
           /\ Get(Cur, heap[o].chatId) = o)
              => SameProgramState(
                     scheduleTimerFires(Cur, o),
                     [Cur EXCEPT !.heap[o].scheduleTimeout = "dead"])
    /\ \A k \in BagToSet(conts) :
          k.kind = "legend" =>
              LET S2 == beginActualPollingResume(Resume(k), k)
              IN  /\ QueuedPollJobs(S2.jobQueue, k.chatId) <= 1
                  /\ S2.heap[k.ts].recapIntervalId = "armed"

\* the schedule timer of a ticker that an immediate-start decision has
\* already set to Polling is about to fire, with no poll Job queued
C26_Witness ==
    \E o \in 1..Len(heap) :
        /\ heap[o].scheduleTimeout = "armed" /\ heap[o].isPolling
        /\ Get(Cur, heap[o].chatId) = o
        /\ ~HasJob(jobQueue, heap[o].chatId, "poll")

\* ------------------------------------------------------------------ C27
\* the callback found the ticker of chat c stopped or Terminated and did
\* nothing: the ticker is not Polling, no recap timer was armed, no Job was
\* enqueued and no send was begun
StaleTimerNoOp(S2, c) ==
    /\ PhaseOf(S2, c) = "Terminated"
    /\ S2.heap[Get(S2, c)].recapIntervalId = heap[Get(Cur, c)].recapIntervalId
    /\ S2.jobQueue = jobQueue
    /\ S2.conts = conts

\* C27: a schedule-timer callback that fires for a ticker which has
\* meanwhile been stopped or has reached Terminated is a no-op.
C27_StaleScheduleTimerNoOp ==
    /\ \A o \in 1..Len(heap) :
          (/\ heap[o].scheduleTimeout = "armed"
           /\ PhaseOf(Cur, heap[o].chatId) = "Terminated")
              => StaleTimerNoOp(scheduleTimerFires(Cur, o), heap[o].chatId)
    /\ \A c \in AllChats :
          (orphanTimers[c] > 0 /\ PhaseOf(Cur, c) = "Terminated")
              => StaleTimerNoOp(
                     beginActualPolling(
                         [Cur EXCEPT !.orphanTimers[c] = @ - 1], c), c)

\* ------------------------------------------------------------------ C28
\* the schedule timers of chat c that will still fire: those a TickerState
\* holds a handle of and those whose handle was overwritten
ArmedScheduleTimers(c) ==
    orphanTimers[c]
        + Cardinality({o \in 1..Len(heap) :
                          heap[o].chatId = c /\ heap[o].scheduleTimeout = "armed"})

ArmedRecapTimers(c) ==
    Cardinality({o \in 1..Len(heap) :
                    heap[o].chatId = c /\ heap[o].recapIntervalId = "armed"})

\* C28: for every chatId at most one schedule timer and at most one recap
\* timer is armed at any time.
C28_OneTimerPerKind ==
    \A c \in AllChats :
        ArmedScheduleTimers(c) <= 1 /\ ArmedRecapTimers(c) <= 1

\* ------------------------------------------------------------------ C29
\* TickerState o is the registry entry of its chat
Registered(o) == Get(Cur, heap[o].chatId) = o

\* C29: an armed recap timer implies that its ticker is in the registry and
\* Polling, an armed schedule timer implies that its ticker is in the
\* registry and Scheduled.
C29_NoTimerAfterTeardown ==
    /\ \A o \in 1..Len(heap) :
          /\ heap[o].recapIntervalId = "armed"
                => Registered(o) /\ Phase(heap[o]) = "Polling"
          /\ heap[o].scheduleTimeout = "armed"
                => Registered(o) /\ Phase(heap[o]) = "Scheduled"
    /\ \A c \in AllChats :
          orphanTimers[c] > 0 => PhaseOf(Cur, c) = "Scheduled"

\* ------------------------------------------------------------------ C30
\* the poll Worker w returned and left ticker state, persisted snapshot and
\* messages as they were
PollWasNoOp(S2, w) ==
    /\ S2.tag = "unchanged"
    /\ S2.heap = heap /\ S2.activeTickers = activeTickers
    /\ S2.seenFile = seenFile /\ S2.scheduleFile = scheduleFile
    /\ S2.hist = hist /\ S2.conts = conts /\ S2.jobQueue = jobQueue
    /\ S2.workers = workers (-) SetToBag({w})
    /\ S2.activeWorkers = activeWorkers - 1

\* C30: a poll whose fetched version marker equals the ticker's
\* lastUpdatedAt, or is missing, is a no-op whatever events the snapshot
\* contains.
C30_UnchangedVersionNoOp ==
    \A w \in BagToSet(workers) : \A k \in feedLen..MaxFeed :
        (w.pc = "fetch" /\ w.type = "poll") =>
            \A v \in {NoVersion, heap[w.ts].lastUpdatedAt} :
                PollWasNoOp(pollBranch([Resumed(w) EXCEPT !.feedLen = k],
                                       w, k, v), w)

\* a poll Worker of a Polling ticker is about to receive a snapshot that
\* carries the version the ticker already has and events it has not seen
C30_Witness ==
    \E w \in BagToSet(workers) : \E k \in feedLen..MaxFeed :
        /\ w.pc = "fetch" /\ w.type = "poll"
        /\ Registered(w.ts) /\ heap[w.ts].isPolling
        /\ FeedVersion(k) = heap[w.ts].lastUpdatedAt
        /\ UnseenEvents(heap[w.ts], k) # {}

\* ------------------------------------------------------------------ C31
\* terminal detection has happened for TickerState o and the ticker has
\* not been started again
Terminal(o) == hist[o].windDowns > 0 /\ Phase(heap[o]) = "Terminated"

\* C31: once terminal detection has happened for a ticker, no further event
\* is marked seen, delivered or buffered for it, neither by the Worker that
\* detected the end nor by any other Worker.
C31_NothingAfterTerminal ==
    [][\A o \in 1..Len(heap) :
          Terminal(o) =>
              /\ heap'[o].seen = heap[o].seen
              /\ hist'[o].handed = hist[o].handed
              /\ hist'[o].recaps = hist[o].recaps
              /\ Len(heap'[o].recapEvents) <= Len(heap[o].recapEvents)]_vars

\* ------------------------------------------------------------------ C32
\* clocks an event can carry: none, or minute and second
Clocks ==
    {<<>>} \cup {<<m, sec>> : m \in 0..(2 * REGULATION_MINUTE + 1),
                              sec \in {0, 59}}

\* the Worker went on with the loop: flags, timers and queue of its ticker
\* are as before and no wind-down was begun
StaysPolling(S2, w) ==
    /\ S2.heap[w.ts].isPolling = heap[w.ts].isPolling
    /\ S2.heap[w.ts].recapIntervalId = heap[w.ts].recapIntervalId
    /\ S2.heap[w.ts].scheduleTimeout = heap[w.ts].scheduleTimeout
    /\ S2.hist[w.ts].windDowns = hist[w.ts].windDowns
    /\ S2.jobQueue = jobQueue
    /\ S2.cleanupTimers = cleanupTimers

SeenSnapshot(S) ==
    [c \in {e.chatId : e \in Range(S.activeTickers)} |->
        S.heap[Get(S, c)].seen]

\* the slices in which a suspended poll Worker can return, each with
\* whether its batch has marked a new event seen by then
ReturningSlices(w) ==
    LET all ==
          CASE w.pc = "fetch" /\ w.type = "poll" ->
                 {[S2  |-> fetchReturns(Resumed(w), w, k, TRUE),
                   new |-> /\ FeedVersion(k) # heap[w.ts].lastUpdatedAt
                           /\ UnseenEvents(heap[w.ts], k) # {}] :
                      k \in feedLen..MaxFeed}
            [] w.pc = "send" ->
                 {[S2 |-> eventSent(Resumed(w), w, r), new |-> TRUE] :
                      r \in SendOutcomes}
            [] w.pc = "recap" ->
                 {[S2 |-> AfterCritical(
                              sendRecapMessageResume(Resumed(w), w.fts),
                              w, w.i),
                   new |-> TRUE]}
            [] w.pc = "summary" ->
                 {[S2 |-> GameEndResume(Resumed(w), w, r), new |-> TRUE] :
                      r \in {"text", "empty", "throw"}}
            [] OTHER -> {}
    IN  {x \in all : x.S2.activeWorkers = activeWorkers - 1}

FreshProcess(S) ==
    [S EXCEPT !.activeTickers = <<>>, !.heap = <<>>, !.hist = <<>>,
              !.jobQueue = <<>>, !.activeWorkers = 0, !.lastPolledIndex = -1,
              !.workers = EmptyBag, !.conts = EmptyBag,
              !.orphanTimers = [c \in AllChats |-> 0],
              !.cleanupTimers = [c \in AllChats |-> 0]]

\* registry entry for chat c with the object `{ seen: seen }`
LoadEntry(S, c, seen) ==
    [S EXCEPT !.heap = Append(@, [NewTicker(c) EXCEPT !.seen = seen]),
              !.hist = Append(@, NewHist),
              !.activeTickers =
                  Append(@, [chatId |-> c, ts |-> Len(S.heap) + 1])]

RECURSIVE loadSeenTickers_Empty(_, _)
RECURSIVE loadSeenTickers(_, _)

\* a loader that ignores the content of the file
loadSeenTickers_Empty(S, cs) ==
    IF cs = {} THEN S
    ELSE LET c == CHOOSE x \in cs : TRUE
         IN  loadSeenTickers_Empty(LoadEntry(S, c, {}), cs \ {c})

\* loadSeenTickers(activeTickers, SEEN_FILE) for the chats cs of the file
loadSeenTickers(S, cs) ==
    IF cs = {} THEN S
    ELSE LET c == CHOOSE x \in cs : TRUE
         IN  loadSeenTickers(LoadEntry(S, c, S.seenFile[c]), cs \ {c})

\* the body of the ready handler's loop for the schedule entry of chat c;
\* future: delay > 0
readyEntry(S, c, future, mode) ==
    LET S1 == IF Has(S, c) THEN S ELSE LoadEntry(S, c, {})
        ts == Get(S1, c)
        S2 == [S1 EXCEPT !.heap[ts].mode = mode,
                         !.heap[ts].recapEvents = <<>>,
                         !.heap[ts].isPolling = FALSE]
    IN  IF future
        THEN [S2 EXCEPT !.heap[ts].isScheduled = TRUE,
                        !.heap[ts].scheduleTimeout = "armed"]
        ELSE beginActualPolling(S2, c)

RECURSIVE readyLoop(_, _, _, _)

readyLoop(S, cs, fut, mode) ==
    IF cs = {} THEN S
    ELSE LET c == CHOOSE x \in cs : TRUE
         IN  readyLoop(readyEntry(S, c, fut[c], mode), cs \ {c}, fut, mode)

\* client.on('ready'): the seen file is loaded, then every schedule entry
\* is re-armed or started
readyHandler(S, fut, mode) ==
    readyLoop(loadSeenTickers(S, DOMAIN S.seenFile), S.scheduleFile,
              fut, mode)

\* C34: after a restart every schedule entry whose start time is in the
\* future yields a ticker in phase Scheduled with an armed schedule timer
\* and the seen set of the SeenSnapshot; every entry whose start time has
\* passed yields a ticker in phase Polling whose schedule entry is removed
\* and whose poll Job is queued (in recap mode once the legend was sent).
C34_RestartRecovery ==
    \A fut \in [scheduleFile -> BOOLEAN] : \A mode \in modes :
        LET S2 == readyHandler(FreshProcess(Cur), fut, mode)
        IN  \A c \in scheduleFile :
                IF fut[c]
                THEN /\ PhaseOf(S2, c) = "Scheduled"
                     /\ S2.heap[Get(S2, c)].scheduleTimeout = "armed"
                     /\ S2.heap[Get(S2, c)].seen =
                            IF c \in DOMAIN seenFile THEN seenFile[c] ELSE {}
                ELSE /\ PhaseOf(S2, c) = "Polling"
                     /\ c \notin S2.scheduleFile
                     /\ IF mode = "live"
                        THEN HasJob(S2.jobQueue, c, "poll")
                        ELSE \E k \in BagToSet(S2.conts) :
                                /\ k.kind = "legend" /\ k.chatId = c
                                /\ HasJob(beginActualPollingResume(
                                              [S2 EXCEPT !.conts =
                                                   @ (-) SetToBag({k})],
                                              k).jobQueue, c, "poll")

\* the files hold a schedule entry for a chat whose persisted seen set is
\* not empty
C34_Witness ==
    \E c \in scheduleFile : c \in DOMAIN seenFile /\ seenFile[c] # {}

\* ------------------------------------------------------------------ C35
\* the recap messages of TickerState o, in history h, that contain event id
RecapsWith(h, o, id) == {j \in 1..Len(h[o].recaps) : id \in h[o].recaps[j]}

\* C35: in recap mode every event buffered while the ticker is Polling
\* leaves the buffer only into a recap message, and no event is contained
\* in more than one recap message.
C35_BufferedExactlyOnce ==
    [][\A o \in 1..Len(heap) :
          (heap[o].isPolling /\ Registered(o)) =>
              /\ \A id \in Range(heap[o].recapEvents) :
                    \/ id \in Range(heap'[o].recapEvents)
                    \/ RecapsWith(hist', o, id) # {}
              /\ \A id \in 1..MaxFeed :
                    Cardinality(RecapsWith(hist', o, id)) <= 1]_vars

\* ------------------------------------------------------------------ C36
\* C36: when the deferred removal set at terminal detection fires for a
\* chat that has been started again, the ticker stays in the registry with
\* its seen set.
C36_CleanupSparesRestarted ==
    \A c \in AllChats :
        (/\ cleanupTimers[c] > 0
         /\ PhaseOf(Cur, c) \in {"Scheduling", "Scheduled", "Polling"})
            => LET S2 == cleanupTimerFires(Cur, c)
               IN  /\ Get(S2, c) = Get(Cur, c)
                   /\ S2.heap[Get(Cur, c)].seen = heap[Get(Cur, c)].seen


\* ------------------------------------------------------------------ C37
\* the slices a poll Worker that awaits its fetch or a send can run next in
\* state S
SlicesFrom(S, w) ==
    LET S0 == [S EXCEPT !.workers = @ (-) SetToBag({w})]
    IN  CASE w.pc = "fetch" /\ w.type = "poll" ->
                {fetchReturns(S0, w, k, TRUE) : k \in S.feedLen..MaxFeed}
          [] w.pc = "send" ->
                {eventSent(S0, w, r) : r \in SendOutcomes}
          [] OTHER -> {}

\* the states right after !stop1 or !reset1 of chat c completed
AfterTeardown(c) == {stopTicker(Cur, c), resetTicker(Cur, c)}

\* C37: once !stop1 or !reset1 of a chat has completed, a poll Worker of that
\* chat that was in flight when the command arrived sends no event, recap or
\* wind-down message and does not extend seenEventIds.
C37_SilentAfterTeardown ==
    \A w \in BagToSet(workers) :
        (w.type = "poll" /\ heap[w.ts].isPolling /\ Registered(w.ts)) =>
            \A S1 \in AfterTeardown(w.chatId) : \A S2 \in SlicesFrom(S1, w) :
                /\ S2.hist[w.ts] = S1.hist[w.ts]
                /\ S2.heap[w.ts].seen = S1.heap[w.ts].seen


\* ------------------------------------------------------------------ C38
\* the states a schedule Worker of chat c, a schedule timer of one of its
\* TickerStates or an orphaned schedule timer can produce next in state S
LateStarts(S, c) ==
    {noticeSent([S EXCEPT !.workers = @ (-) SetToBag({w})], w, r) :
        w \in {x \in BagToSet(S.workers) :
                  /\ x.chatId = c
                  /\ x.type = "schedule"
                  /\ x.pc \in {"sched_notice", "start_notice"}},
        r \in SendOutcomes}
    \cup {scheduleTimerFires(S, o) :
            o \in {x \in 1..Len(S.heap) :
                      /\ S.heap[x].chatId = c
                      /\ S.heap[x].scheduleTimeout = "armed"}}
    \cup (IF S.orphanTimers[c] > 0
          THEN {beginActualPolling([S EXCEPT !.orphanTimers[c] = @ - 1], c)}
          ELSE {})

\* C38: after !stop1 or !reset1 on a ticker in phase Scheduling, Scheduled or
\* Polling, no schedule Worker in flight and no schedule timer armed when the
\* command arrived puts the chat into phase Polling.
C38_NoPollingAfterTeardown ==
    \A c \in AllChats :
        PhaseOf(Cur, c) \in {"Scheduling", "Scheduled", "Polling"} =>
            \A S1 \in AfterTeardown(c) : \A S2 \in LateStarts(S1, c) :
                PhaseOf(S2, c) # "Polling"

\* =================================================== next-state relation
Next ==
    \/ \E c \in chats, mode \in modes, r \in SendOutcomes :
            CreateTicker(c, mode, r)
    \/ \E c \in chats, mode \in modes : CreateRejected(c, mode)
    \/ \E k \in BagToSet(conts), r \in SendOutcomes : StartFailed(k, r)
    \/ \E c \in chats : StopTicker(c)
    \/ \E c \in chats : ResetTicker(c)
    \/ MasterSchedulerTick
    \/ DispatcherTick
    \/ \E w \in BagToSet(workers), k \in feedLen..MaxFeed, future \in BOOLEAN :
            FetchReturns(w, k, future)
    \/ \E w \in BagToSet(workers) : FetchFails(w)
    \/ \E w \in BagToSet(workers), r \in SendOutcomes : NoticeSent(w, r)
    \/ \E w \in BagToSet(workers), r \in SendOutcomes : EventSent(w, r)
    \/ \E w \in BagToSet(workers) : CriticalFlushSent(w)
    \/ \E w \in BagToSet(workers), r \in {"text", "empty", "throw"} :
            SummaryReturns(w, r)
    \/ \E k \in BagToSet(conts) : LegendSent(k)
    \/ \E k \in BagToSet(conts) : FlushSent(k)
    \/ \E o \in 1..Len(heap) : ScheduleTimerFires(o)
    \/ \E c \in AllChats : OrphanTimerFires(c)
    \/ \E o \in 1..Len(heap) : RecapTimerFires(o)
    \/ \E c \in AllChats : CleanupTimerFires(c)

Spec == Init /\ [][Next]_vars

\* ================================================ Master Scheduler fairness
\* Three chats run live tickers on a feed that stays empty; every send is
\* accepted and every game has already started.  The timers of app.js
\* 187-188 keep firing and every await of a Worker returns; chat commands
\* arrive whenever the users send them.

\* some Job, Worker or pending send of chat c is left over
Busy(c) ==
    \/ HasAnyJob(jobQueue, c)
    \/ \E w \in BagToSet(workers) : w.chatId = c
    \/ \E k \in BagToSet(conts) : k.chatId = c

\* !start1 for a chat that has no ticker or a stopped one and nothing left
\* over from its earlier run
StartIdleTicker(c) ==
    /\ PhaseOf(Cur, c) \in {"Absent", "Terminated"}
    /\ ~Busy(c)
    /\ UNCHANGED creates
    /\ \E mode \in modes : Commit(startCommand(Cur, c, mode, "ok"))

InitFair ==
    /\ chats = AllChats
    /\ modes = {"live"}
    /\ activeTickers = <<>>
    /\ heap = <<>>
    /\ jobQueue = <<>>
    /\ activeWorkers = 0
    /\ lastPolledIndex = -1
    /\ workers = EmptyBag
    /\ conts = EmptyBag
    /\ orphanTimers = [c \in AllChats |-> 0]
    /\ cleanupTimers = [c \in AllChats |-> 0]
    /\ scheduleFile = {}
    /\ seenFile = [c \in {} |-> {}]
    /\ feedLen = 0
    /\ creates = 0
    /\ hist = <<>>

\* a fetch returns the empty feed; for a schedule Job the start time lies in
\* the past
WorkerFetches ==
    \E w \in BagToSet(workers) : FetchReturns(w, feedLen, w.type = "poll")

WorkerNoticeSent == \E w \in BagToSet(workers) : NoticeSent(w, "ok")

NextFair ==
    \/ \E c \in chats : StartIdleTicker(c)
    \/ \E c \in chats : StopTicker(c)
    \/ MasterSchedulerTick
    \/ DispatcherTick
    \/ WorkerFetches
    \/ WorkerNoticeSent

\* setInterval(masterScheduler, 20000), setInterval(dispatcherLoop, 500),
\* and awaits that return
Fairness ==
    /\ WF_vars(MasterSchedulerTick)
    /\ WF_vars(DispatcherTick)
    /\ WF_vars(WorkerFetches)
    /\ WF_vars(WorkerNoticeSent)

SpecFair == InitFair /\ [][NextFair]_vars /\ Fairness

\* ================================================== first poll Job (recap)
\* Two chats run recap tickers on a feed that stays empty; every send is
\* accepted and every game has already started.  The recap interval is
\* long against everything that happens here and does not fire.
InitRecap ==
    /\ chats = {"c1", "c2"}
    /\ modes = {"recap"}
    /\ activeTickers = <<>>
    /\ heap = <<>>
    /\ jobQueue = <<>>
    /\ activeWorkers = 0
    /\ lastPolledIndex = -1
    /\ workers = EmptyBag
    /\ conts = EmptyBag
    /\ orphanTimers = [c \in AllChats |-> 0]
    /\ cleanupTimers = [c \in AllChats |-> 0]
    /\ scheduleFile = {}
    /\ seenFile = [c \in {} |-> {}]
    /\ feedLen = 0
    /\ creates = 0
    /\ hist = <<>>

PollingLegendSent == \E k \in BagToSet(conts) : LegendSent(k)

NextRecap ==
    \/ \E c \in chats : StartIdleTicker(c)
    \/ \E c \in chats : StopTicker(c)
    \/ MasterSchedulerTick
    \/ DispatcherTick
    \/ WorkerFetches
    \/ WorkerNoticeSent
    \/ PollingLegendSent

SpecRecap == InitRecap /\ [][NextRecap]_vars

\* ====================================================== a game to its end
\* Two chats run live tickers on a feed that is empty before the game and
\* holds MaxFeed events once the game is over, and then stays as it is; every
\* fetch and every send succeeds, every game has already started.  The timers of app.js 187-188 keep firing and every
\* await of a Worker returns; chat commands arrive whenever the users send
\* them.  The retention window is long against everything that happens here.
InitGame ==
    /\ chats = {"c1", "c2"}
    /\ modes = {"live"}
    /\ activeTickers = <<>>
    /\ heap = <<>>
    /\ jobQueue = <<>>
    /\ activeWorkers = 0
    /\ lastPolledIndex = -1
    /\ workers = EmptyBag
    /\ conts = EmptyBag
    /\ orphanTimers = [c \in AllChats |-> 0]
    /\ cleanupTimers = [c \in AllChats |-> 0]
    /\ scheduleFile = {}
    /\ seenFile = [c \in {} |-> {}]
    /\ feedLen = 0
    /\ creates = 0
    /\ hist = <<>>

\* the Workers of chat c that are suspended in an await
WorkersOf(c) == {w \in BagToSet(workers) : w.chatId = c}

\* a fetch of a Worker of chat c returns the feed as it is by then
FetchOf(c) ==
    \E w \in WorkersOf(c), k \in {feedLen, MaxFeed} :
        FetchReturns(w, k, w.type = "poll")

NoticeOf(c) == \E w \in WorkersOf(c) : NoticeSent(w, "ok")

EventOf(c) == \E w \in WorkersOf(c) : EventSent(w, "ok")

SummaryOf(c) == \E w \in WorkersOf(c) : SummaryReturns(w, "text")

NextGame ==
    \/ \E c \in chats : StartIdleTicker(c)
    \/ \E c \in chats : StopTicker(c)
    \/ MasterSchedulerTick
    \/ DispatcherTick
    \/ \E c \in chats : FetchOf(c)
    \/ \E c \in chats : NoticeOf(c)
    \/ \E c \in chats : EventOf(c)
    \/ \E c \in chats : SummaryOf(c)

\* setInterval(masterScheduler, 20000), setInterval(dispatcherLoop, 500),
\* and for every chat awaits that return
FairnessGame ==
    /\ WF_vars(MasterSchedulerTick)
    /\ WF_vars(DispatcherTick)
    /\ \A c \in {"c1", "c2"} :
          /\ WF_vars(FetchOf(c))
          /\ WF_vars(NoticeOf(c))
          /\ WF_vars(EventOf(c))
          /\ WF_vars(SummaryOf(c))

SpecGame == InitGame /\ [][NextGame]_vars /\ FairnessGame

\* ------------------------------------------------------------------ C39
\* the feed holds a game-end event the ticker of chat c has not seen
UnseenGameEnd(c) ==
    /\ Has(Cur, c)
    /\ \E id \in 1..feedLen : IsGameEnd(id) /\ id \notin heap[Get(Cur, c)].seen

\* C39: a Polling ticker whose feed holds a period-end event above minute 30
\* it has not seen eventually becomes Terminated, also when the version
\* marker of the feed no longer changes after the schedule Job fetched it.
C39_TerminationLiveness ==
    \A c \in {"c1", "c2"} :
        (PhaseOf(Cur, c) = "Polling" /\ UnseenGameEnd(c))
            ~> (PhaseOf(Cur, c) = "Terminated")

\* ------------------------------------------------------------------ C40
\* number of Workers of chat c that were started and have not returned
InFlight(c) == CountWorkers(LAMBDA w : w.chatId = c)

\* a Worker of chat c returns and gives its slot back
WorkerReturned(c) ==
    /\ InFlight(c)' < InFlight(c)
    /\ activeWorkers' < activeWorkers

Selects(c) == MasterSchedulerTick /\ masterScheduler(Cur).tag = c

\* C20: every ticker that stays in phase Polling is selected by the Master
\* Scheduler infinitely often, also while other tickers enter and leave
\* the Polling set between ticks.
C20_SchedulerFairness ==
    \A c \in AllChats :
        <>[](PhaseOf(Cur, c) = "Polling") => []<><<Selects(c)>>_vars


====
